---------------------------- MODULE Spec2Model ----------------------------
(***************************************************************************)
(* Model of the two scripts of hylable_discussion_backup:                  *)
(*   src/hylable_processing.py   the discussion fetcher (polling loops,    *)
(*                               enumeration + sort, transcript retrieval, *)
(*                               main loop)                                *)
(*   src/miro-backup-python.py   the board backup (cursor pagination,      *)
(*                               backup assembly and write, main)          *)
(* The pipelines do not interact, so each has its own specification over   *)
(* its own group of variables; the other groups stay at their idle value.  *)
(***************************************************************************)
EXTENDS Integers, Sequences, FiniteSets, TLC

(***************************************************************************)
(* Bounds of the model.                                                    *)
(***************************************************************************)
NumIds == 3          \* distinct discussion identifiers the service can list
MaxListLen == 3      \* discussions yielded by one listing pass
MaxMax == 3          \* largest max_discussions argument
MaxTimeout == 4      \* largest timeout argument (logical seconds)
MaxListDur == 2      \* longest listing call (logical seconds)

\* time.sleep(3) of get_discussion_ids
PollInterval == 3

Range(s) == {s[i] : i \in 1..Len(s)}

NoDup(s) == \A i, j \in 1..Len(s) : i # j => s[i] # s[j]

Max2(a, b) == IF a >= b THEN a ELSE b

DiscussionIds == 1..NumIds

Statuses == {"recording", "finished"}

VARIABLES
    \* ---- polling loops: get_discussion_ids / get_recording_discussion_ids
    p_fn,          \* "all" = get_discussion_ids, "recording" = get_recording_discussion_ids
    p_max,         \* max_discussions
    p_timeout,     \* timeout
    p_pc,          \* position in the function
    p_ids,         \* discussion_ids
    p_pos,         \* discussions the current listing pass has yielded so far
    p_now,         \* time.time() - start_time, on a logical clock
    p_pass,        \* history: "none" | "first" | "later" listing pass begun
    p_passAt,      \* history: elapsed time when the latest listing pass began
    p_sleepAt,     \* history: elapsed time when the latest sleep began (-1: none)
    p_ret          \* the returned list (<<>> until the call returns)

pollVars == <<p_fn, p_max, p_timeout, p_pc, p_ids, p_pos, p_now, p_pass,
              p_passAt, p_sleepAt, p_ret>>

VARIABLES
    \* ---- board backup: main, load_environment, MiroBoardBackup
    m_pc,          \* position in main / backup_board
    m_environ,     \* os.environ: MIRO_ACCESS_TOKEN, MIRO_BOARD_ID, OUTPUT_PATH
    m_outputPath,  \* output_path returned by load_environment
    m_file0,       \* the output file before the run
    m_file,        \* the output file
    m_reqs,        \* history: the requests issued to the board API, in order
    m_pages,       \* history: the item pages received, in order
    m_items,       \* items of get_all_items
    m_cursor,      \* cursor of get_all_items
    m_boardInfo,   \* board_info of backup_board
    m_itemsRet,    \* what get_all_items returned (<<"none">> until it returns)
    m_ret,         \* what backup_board returned (<<"none">> until it returns)
    m_failed,      \* history: which request failed at HTTP level
    m_err          \* the exception that ended the run ("none": no exception)

miroVars == <<m_pc, m_environ, m_outputPath, m_file0, m_file, m_reqs, m_pages,
              m_items, m_cursor, m_boardInfo, m_itemsRet, m_ret, m_failed, m_err>>

VARIABLES
    \* ---- transcript retrieval: get_single_discussion_text and the main loop
    t_pc,          \* position in the main loop
    t_list,        \* all_discussions: the identifiers in enumeration order
    t_i,           \* index of the next discussion of the for loop
    t_discussion,  \* the fields of `discussion` the latest iteration read
    t_files0,      \* the transcript files before the run, by identifier
    t_files,       \* the transcript files, by identifier
    t_processed,   \* history: identifiers get_single_discussion_text was called with
    t_outcomes,    \* history: what the service did on each call
    t_results,     \* history: what each call returned
    t_written,     \* history: identifiers whose file the run wrote to
    t_err          \* the exception that ended the script ("none": no exception)

textVars == <<t_pc, t_list, t_i, t_discussion, t_files0, t_files, t_processed,
              t_outcomes, t_results, t_written, t_err>>

VARIABLES
    \* ---- get_all_discussion_ids
    e_pc,          \* position in the function
    e_timeout,     \* timeout
    e_now,         \* time.time() - start_time, on a logical clock
    e_found,       \* found_ids
    e_discussions, \* discussions
    e_listed,      \* history: the collected records in the order of listing
    e_pos,         \* discussions the current listing pass has yielded so far
    e_passes,      \* history: listing passes begun
    e_newInPass,   \* history: the current pass added an unseen identifier
    e_tzKnown,     \* the local timezone's name is JST (what %Z can parse)
    e_ret,         \* the returned list (<<"none">> until the call returns)
    e_err          \* the exception the call raised ("none": no exception)

enumVars == <<e_pc, e_timeout, e_now, e_found, e_discussions, e_listed, e_pos,
              e_passes, e_newInPass, e_tzKnown, e_ret, e_err>>

vars == <<pollVars, miroVars, textVars, enumVars>>

\* What an action of one pipeline leaves alone: the other pipelines.
notPoll == <<miroVars, textVars, enumVars>>
notMiro == <<pollVars, textVars, enumVars>>
notText == <<pollVars, miroVars, enumVars>>
notEnum == <<pollVars, miroVars, textVars>>

(***************************************************************************)
(* get_discussion_ids and get_recording_discussion_ids                     *)
(***************************************************************************)

\* `discussion.id not in discussion_ids`
\* (faulty variant: the membership test left out)
IsNewMut(id, ids) == TRUE
IsNew(id, ids) == id \notin Range(ids)

\* `time.time() - start_time > timeout`
\* (faulty variant: the comparison off by one second)
TimedOutMut(now, timeout) == now > timeout + 1
TimedOut(now, timeout) == now > timeout

\* `while len(discussion_ids) < max_discussions`
LoopCond(ids, max) == Len(ids) < max

\* `len(discussion_ids) >= max_discussions`
ReachedMax(ids, max) == Len(ids) >= max

\* The while condition; when it holds, hy_client.get_discussions(course_id) is
\* called, which takes d logical seconds.
PollLoopTop ==
    /\ p_pc = "loop"
    /\ IF LoopCond(p_ids, p_max)
       THEN \E d \in 0..MaxListDur :
              /\ p_pc' = "iter"
              /\ p_pos' = 0
              /\ p_pass' = IF p_pass = "none" THEN "first" ELSE "later"
              /\ p_passAt' = p_now
              /\ p_now' = p_now + d
              /\ UNCHANGED <<p_ids, p_ret>>
       ELSE /\ p_pc' = "done"
            /\ p_ret' = p_ids
            /\ UNCHANGED <<p_ids, p_pos, p_now, p_pass, p_passAt>>
    /\ UNCHANGED <<p_fn, p_max, p_timeout, p_sleepAt>>
    /\ UNCHANGED notPoll

\* One iteration of the for loop of get_discussion_ids over a yielded discussion.
BodyAll(id) ==
    IF IsNew(id, p_ids)
    THEN LET ids2 == Append(p_ids, id) IN
         /\ p_ids' = ids2
         /\ IF ReachedMax(ids2, p_max)
            THEN p_pc' = "done" /\ p_ret' = ids2
            ELSE p_pc' = "iter" /\ p_ret' = p_ret
    ELSE UNCHANGED <<p_ids, p_pc, p_ret>>

\* One iteration of the for loop of get_recording_discussion_ids.
BodyRecording(id, status) ==
    IF status = "recording"
    THEN LET ids2 == IF IsNew(id, p_ids) THEN Append(p_ids, id) ELSE p_ids IN
         /\ p_ids' = ids2
         /\ IF ReachedMax(ids2, p_max)
            THEN p_pc' = "done" /\ p_ret' = ids2
            ELSE p_pc' = "iter" /\ p_ret' = p_ret
    ELSE UNCHANGED <<p_ids, p_pc, p_ret>>

\* The listing yields its next discussion and the loop body runs on it.
PollYield ==
    /\ p_pc = "iter"
    /\ p_pos < MaxListLen
    /\ \E id \in DiscussionIds, status \in Statuses :
          IF p_fn = "all" THEN BodyAll(id) ELSE BodyRecording(id, status)
    /\ p_pos' = p_pos + 1
    /\ UNCHANGED <<p_fn, p_max, p_timeout, p_now, p_pass, p_passAt, p_sleepAt>>
    /\ UNCHANGED notPoll

\* The listing is exhausted: the for loop ends.
PollListEnd ==
    /\ p_pc = "iter"
    /\ p_pc' = "check"
    /\ UNCHANGED <<p_fn, p_max, p_timeout, p_ids, p_pos, p_now, p_pass,
                   p_passAt, p_sleepAt, p_ret>>
    /\ UNCHANGED notPoll

\* `if time.time() - start_time > timeout: break`, after the for loop.
PollTimeoutCheck ==
    /\ p_pc = "check"
    /\ IF TimedOut(p_now, p_timeout)
       THEN p_pc' = "done" /\ p_ret' = p_ids
       ELSE /\ p_pc' = IF p_fn = "all" THEN "sleep" ELSE "loop"
            /\ p_ret' = p_ret
    /\ UNCHANGED <<p_fn, p_max, p_timeout, p_ids, p_pos, p_now, p_pass,
                   p_passAt, p_sleepAt>>
    /\ UNCHANGED notPoll

\* `time.sleep(3)` (get_discussion_ids only).
PollSleep ==
    /\ p_pc = "sleep"
    /\ p_sleepAt' = p_now
    /\ p_now' = p_now + PollInterval
    /\ p_pc' = "loop"
    /\ UNCHANGED <<p_fn, p_max, p_timeout, p_ids, p_pos, p_pass, p_passAt, p_ret>>
    /\ UNCHANGED notPoll

PollNext ==
    \/ PollLoopTop
    \/ PollYield
    \/ PollListEnd
    \/ PollTimeoutCheck
    \/ PollSleep

(***************************************************************************)
(* Claims about the polling loops                                          *)
(***************************************************************************)

\* C1: the list returned by get_discussion_ids and by
\* get_recording_discussion_ids contains no identifier twice and has length
\* at most max(max_discussions, 0), for every max_discussions (0 and
\* negatives included) and every sequence of listings (repeats included).
C1_UniqueAtMostMax ==
    p_pc = "done" => /\ NoDup(p_ret)
                     /\ Len(p_ret) <= Max2(p_max, 0)
                     /\ p_ret = p_ids

\* C1 witness: a call that returned two identifiers after a listing pass in
\* which an identifier already collected was yielded again.
C1_Witness ==
    /\ p_pc = "done"
    /\ p_fn = "all"
    /\ p_pass = "first"
    /\ Len(p_ret) = 2
    /\ p_pos > Len(p_ret)

\* C9 (as stated): the timeout is checked before each listing pass, so no
\* listing pass begins once more than `timeout` has elapsed, and a call whose
\* timeout has already elapsed performs no listing.
C9_Original ==
    p_timeout >= 0 /\ p_pass # "none" => p_passAt <= p_timeout

\* C9 (amended): the timeout is checked after each listing pass.  The first
\* pass is begun without any check; a sleep is begun only at an elapsed time
\* not above timeout; every later pass begins at most one poll interval
\* (get_discussion_ids) or no time at all (get_recording_discussion_ids,
\* which never sleeps) after a check that found elapsed <= timeout; and a
\* call that returns short of max_discussions has listed at least once.
C9_CheckedAfterPass ==
    /\ p_sleepAt <= p_timeout
    /\ (p_fn = "recording" => p_sleepAt = -1)
    /\ (p_pass = "later" =>
          p_passAt <= p_timeout + (IF p_fn = "all" THEN PollInterval ELSE 0))
    /\ (p_pc = "done" /\ p_max > 0 => p_pass # "none")
    /\ (p_pc = "sleep" => ~TimedOut(p_now, p_timeout))

\* C9 witness: a second listing pass of get_discussion_ids that began after
\* the timeout had elapsed, exactly one poll interval after the check.
C9_Witness ==
    /\ p_fn = "all"
    /\ p_pass = "later"
    /\ p_passAt > p_timeout
    /\ p_passAt = p_sleepAt + PollInterval

(***************************************************************************)
(* JSON documents (response.json(), json.dump, json.load)                  *)
(*                                                                         *)
(* A document is a tagged tuple: <<"null">>, <<"str", s>>, <<"num", n>>,   *)
(* <<"list", seq>> or <<"obj", seq of <<key, document>> >> (a dict in      *)
(* insertion order).  The text of a file is a sequence of tokens; white    *)
(* space (indent=2) carries no information and is not represented.         *)
(***************************************************************************)
JNull == <<"null">>
JStr(s) == <<"str", s>>
JNum(n) == <<"num", n>>
JList(seq) == <<"list", seq>>
JObj(pairs) == <<"obj", pairs>>

\* dict.get(key, default)
DictGet(obj, key, default) ==
    LET pairs == obj[2]
        hits == {i \in 1..Len(pairs) : pairs[i][1] = key}
    IN IF hits = {} THEN default ELSE pairs[CHOOSE i \in hits : TRUE][2]

\* Python truthiness of a value used as a cursor or an environment string:
\* None and the empty string are falsy.
Truthy(v) == v[1] = "str" /\ v[2] # ""

RECURSIVE JsonDump(_), DumpElems(_), DumpMembers(_)
\* json.dump(value, f, indent=2, ensure_ascii=False): the tokens written.
JsonDump(v) ==
    CASE v[1] = "null" -> << <<"null">> >>
      [] v[1] = "str"  -> << <<"S", v[2]>> >>
      [] v[1] = "num"  -> << <<"N", v[2]>> >>
      [] v[1] = "list" -> << <<"[">> >> \o DumpElems(v[2]) \o << <<"]">> >>
      [] v[1] = "obj"  -> << <<"{">> >> \o DumpMembers(v[2]) \o << <<"}">> >>

DumpElems(seq) ==
    IF seq = <<>> THEN <<>>
    ELSE JsonDump(Head(seq))
         \o (IF Len(seq) > 1 THEN << <<",">> >> \o DumpElems(Tail(seq)) ELSE <<>>)

DumpMembers(pairs) ==
    IF pairs = <<>> THEN <<>>
    ELSE << <<"S", Head(pairs)[1]>>, <<":">> >> \o JsonDump(Head(pairs)[2])
         \o (IF Len(pairs) > 1 THEN << <<",">> >> \o DumpMembers(Tail(pairs)) ELSE <<>>)

RECURSIVE ParseValue(_), ParseElems(_, _), ParseMembers(_, _)
\* json.load: a recursive-descent parse of the tokens; each operator returns
\* <<document, remaining tokens>>.
ParseValue(ts) ==
    LET h == Head(ts) IN
    CASE h[1] = "null" -> <<JNull, Tail(ts)>>
      [] h[1] = "S"    -> <<JStr(h[2]), Tail(ts)>>
      [] h[1] = "N"    -> <<JNum(h[2]), Tail(ts)>>
      [] h[1] = "["    -> ParseElems(Tail(ts), <<>>)
      [] h[1] = "{"    -> ParseMembers(Tail(ts), <<>>)

ParseElems(ts, acc) ==
    IF Head(ts)[1] = "]" THEN <<JList(acc), Tail(ts)>>
    ELSE LET r == ParseValue(ts)
             rest == IF Head(r[2])[1] = "," THEN Tail(r[2]) ELSE r[2]
         IN ParseElems(rest, Append(acc, r[1]))

ParseMembers(ts, acc) ==
    IF Head(ts)[1] = "}" THEN <<JObj(acc), Tail(ts)>>
    ELSE LET key == Head(ts)[2]
             r == ParseValue(Tail(Tail(ts)))
             rest == IF Head(r[2])[1] = "," THEN Tail(r[2]) ELSE r[2]
         IN ParseMembers(rest, Append(acc, <<key, r[1]>>))

JsonLoad(ts) == ParseValue(ts)[1]

(***************************************************************************)
(* Board backup: src/miro-backup-python.py                                 *)
(***************************************************************************)
MaxPages == 3        \* item pages the board API serves before it stops

\* An environment variable: unset (os.getenv gives None), empty, or set.
EnvUnset == JNull
EnvVals(val) == {EnvUnset, JStr(""), JStr(val)}

Environs ==
    [token : EnvVals("tok"), board : EnvVals("b1"), path : EnvVals("out.json")]

DefaultOutputPath == JStr("miro_board_backup.json")

\* os.getenv(key, default)
GetEnv(v, default) == IF v = EnvUnset THEN default ELSE v

\* load_dotenv(dotenv_path) with override=False: a variable of the .env file is
\* set only when os.environ does not have it.
LoadDotenv(environ, dotenv) ==
    [k \in DOMAIN environ |-> IF environ[k] = EnvUnset THEN dotenv[k] ELSE environ[k]]

\* `if not access_token` / `if not board_id`
\* (faulty variant: `is None`, which lets an empty value through)
MissingMut(v) == v = EnvUnset
Missing(v) == ~Truthy(v)

\* Item documents and board metadata documents the API can return.
Item1 == JObj(<< <<"id", JStr("i1")>> >>)
Item2 == JObj(<< <<"id", JStr("i2")>> >>)

\* The lists of item documents a page can carry.
ItemLists == {<<>>, <<Item1>>, <<Item1, Item2>>, <<Item2, Item1>>}

BoardInfos ==
    { JObj(<< <<"id", JStr("b1")>> >>),
      JObj(<< <<"id", JStr("b1")>>, <<"name", JStr("Board")>> >>),
      JObj(<< <<"id", JStr("b1")>>, <<"name", JNull>> >>) }

\* The "data" member of a page: absent, null, or a list of item documents.
DataMembers ==
    {<<>>, << <<"data", JNull>> >>} \cup {<< <<"data", JList(l)>> >> : l \in ItemLists}

\* The "cursor" member of a page: absent, null, empty, or a cursor string.
CursorMembers ==
    {<<>>} \cup {<< <<"cursor", c>> >> : c \in {JNull, JStr(""), JStr("c1"), JStr("c2")}}

Pages == {JObj(d \o c) : d \in DataMembers, c \in CursorMembers}

HasKey(obj, key) == \E i \in 1..Len(obj[2]) : obj[2][i][1] = key

\* `params = {"cursor": cursor} if cursor else {}`: the cursor the request
\* passes; JNull stands for a request without a cursor parameter.
CursorParam(cursor) == IF Truthy(cursor) THEN cursor ELSE JNull

\* `items.extend(...)`
\* (faulty variant: `items = ...`, which keeps the last page only)
ExtendMut(items, more) == more
Extend(items, more) == items \o more

\* `if not cursor: break`
\* (faulty variant: `if cursor is None`, which goes on after an empty cursor)
StopsMut(cursor) == cursor = JNull
Stops(cursor) == ~Truthy(cursor)

\* backup_data of backup_board
\* (faulty variant: board_info.get('name') without the default)
BackupDataMut(board_info, items) ==
    JObj(<< <<"board", board_info>>,
            <<"items", JList(items)>>,
            <<"metadata", JObj(<< <<"backup_date", JStr("now")>>,
                                  <<"item_count", JNum(Len(items))>>,
                                  <<"board_name", DictGet(board_info, "name", JNull)>> >>)>> >>)
BackupData(board_info, items) ==
    JObj(<< <<"board", board_info>>,
            <<"items", JList(items)>>,
            <<"metadata", JObj(<< <<"backup_date", JStr("now")>>,
                                  <<"item_count", JNum(Len(items))>>,
                                  <<"board_name",
                                    DictGet(board_info, "name", JStr("Unknown Board"))>> >>)>> >>)

FileAbsent == <<"absent">>
FileOld == <<"data", << <<"S", "previous content">> >> >>


\* main: load_environment(); on success MiroBoardBackup(access_token) is built
\* and backup_board is entered, on ValueError main logs the error and returns.
LoadEnvironment ==
    /\ m_pc = "start"
    /\ \E dotenv \in Environs :
          LET env == LoadDotenv(m_environ, dotenv)
              access_token == GetEnv(env.token, EnvUnset)
              board_id == GetEnv(env.board, EnvUnset)
              output_path == GetEnv(env.path, DefaultOutputPath)
          IN /\ m_environ' = env
             /\ IF Missing(access_token) \/ Missing(board_id)
                THEN /\ m_pc' = "envError"
                     /\ m_err' = "ValueError"
                     /\ m_outputPath' = m_outputPath
                ELSE /\ m_pc' = "board"
                     /\ m_err' = m_err
                     /\ m_outputPath' = output_path
    /\ UNCHANGED <<m_file0, m_file, m_reqs, m_pages, m_items, m_cursor,
                   m_boardInfo, m_itemsRet, m_ret, m_failed>>
    /\ UNCHANGED notMiro

\* get_board: the request succeeds and response.json() is the board metadata;
\* get_all_items is entered (items = [], cursor = None).
GetBoardOk ==
    /\ m_pc = "board"
    /\ m_reqs' = Append(m_reqs, <<"board">>)
    /\ \E info \in BoardInfos : m_boardInfo' = info
    /\ m_items' = <<>>
    /\ m_cursor' = JNull
    /\ m_pc' = "items"
    /\ UNCHANGED <<m_environ, m_outputPath, m_file0, m_file, m_pages,
                   m_itemsRet, m_ret, m_failed, m_err>>
    /\ UNCHANGED notMiro

\* get_board: requests.get or raise_for_status raises; get_board logs and
\* re-raises, backup_board logs and re-raises.
GetBoardFail ==
    /\ m_pc = "board"
    /\ m_reqs' = Append(m_reqs, <<"board">>)
    /\ m_failed' = "board"
    /\ m_pc' = "raised"
    /\ m_err' = "RequestException"
    /\ UNCHANGED <<m_environ, m_outputPath, m_file0, m_file, m_pages, m_items,
                   m_cursor, m_boardInfo, m_itemsRet, m_ret>>
    /\ UNCHANGED notMiro

\* One turn of the while loop of get_all_items with a successful response.
GetPageOk ==
    /\ m_pc = "items"
    /\ m_reqs' = Append(m_reqs, <<"items", CursorParam(m_cursor)>>)
    /\ \E data \in Pages :
          LET got == DictGet(data, "data", JList(<<>>))
              cursor == DictGet(data, "cursor", JNull)
          IN /\ Len(m_pages) + 1 >= MaxPages => ~Truthy(cursor)
             /\ m_pages' = Append(m_pages, data)
             /\ IF got[1] # "list"
                THEN \* items.extend(None): TypeError, re-raised by backup_board
                     /\ m_pc' = "raised"
                     /\ m_err' = "TypeError"
                     /\ UNCHANGED <<m_items, m_cursor, m_itemsRet>>
                ELSE /\ m_items' = Extend(m_items, got[2])
                     /\ m_cursor' = cursor
                     /\ m_err' = m_err
                     /\ IF Stops(cursor)
                        THEN m_pc' = "assemble" /\ m_itemsRet' = <<"ret", m_items'>>
                        ELSE m_pc' = "items" /\ m_itemsRet' = m_itemsRet
    /\ UNCHANGED <<m_environ, m_outputPath, m_file0, m_file, m_boardInfo,
                   m_ret, m_failed>>
    /\ UNCHANGED notMiro

\* One turn of the while loop whose request fails: get_all_items logs and
\* re-raises, backup_board logs and re-raises.
\* (faulty variant: the error is swallowed and the items so far are returned)
GetPageFailMut ==
    /\ m_pc = "items"
    /\ m_reqs' = Append(m_reqs, <<"items", CursorParam(m_cursor)>>)
    /\ m_failed' = "page"
    /\ m_pc' = "assemble"
    /\ m_itemsRet' = <<"ret", m_items>>
    /\ UNCHANGED <<m_environ, m_outputPath, m_file0, m_file, m_pages, m_items,
                   m_cursor, m_boardInfo, m_ret, m_err>>
    /\ UNCHANGED notMiro
GetPageFail ==
    /\ m_pc = "items"
    /\ m_reqs' = Append(m_reqs, <<"items", CursorParam(m_cursor)>>)
    /\ m_failed' = "page"
    /\ m_pc' = "raised"
    /\ m_err' = "RequestException"
    /\ UNCHANGED <<m_environ, m_outputPath, m_file0, m_file, m_pages, m_items,
                   m_cursor, m_boardInfo, m_itemsRet, m_ret>>
    /\ UNCHANGED notMiro

\* backup_board after get_all_items returned: backup_data is assembled and
\* written with open(output_path, 'w') and json.dump.  open('') raises.
WriteBackup ==
    /\ m_pc = "assemble"
    /\ LET backup_data == BackupData(m_boardInfo, m_itemsRet[2]) IN
       IF m_outputPath = JStr("")
       THEN /\ m_pc' = "raised"
            /\ m_err' = "OSError"
            /\ UNCHANGED <<m_file, m_ret>>
       ELSE /\ m_file' = <<"data", JsonDump(backup_data)>>
            /\ m_ret' = backup_data
            /\ m_pc' = "done"
            /\ m_err' = m_err
    /\ UNCHANGED <<m_environ, m_outputPath, m_file0, m_reqs, m_pages, m_items,
                   m_cursor, m_boardInfo, m_itemsRet, m_failed>>
    /\ UNCHANGED notMiro

MiroNext ==
    \/ LoadEnvironment
    \/ GetBoardOk
    \/ GetBoardFail
    \/ GetPageOk
    \/ GetPageFail
    \/ WriteBackup

(***************************************************************************)
(* Claims about the board backup                                           *)
(***************************************************************************)

\* The data lists of the received pages, concatenated in request order; a
\* page without 'data' contributes nothing.
RECURSIVE ConcatData(_)
ConcatData(pages) ==
    IF pages = <<>> THEN <<>>
    ELSE ConcatData(SubSeq(pages, 1, Len(pages) - 1))
         \o (LET last == pages[Len(pages)] IN
             IF HasKey(last, "data") THEN DictGet(last, "data", JNull)[2] ELSE <<>>)

\* The item requests among the requests issued, in order.
ItemReqs == SelectSeq(m_reqs, LAMBDA r : r[1] = "items")

\* The value of a page's cursor key (JNull when the page has none).
CursorOf(page) == DictGet(page, "cursor", JNull)

\* The pagination protocol of get_all_items, with `continues(page)` deciding
\* whether a response is followed by a further request.
Pagination(continues(_)) ==
    LET reqs == ItemReqs IN
    /\ Len(reqs) >= 1 => reqs[1][2] = JNull
    /\ \A k \in 1..Len(m_pages) :
          /\ k < Len(reqs) =>
                /\ continues(m_pages[k])
                /\ reqs[k + 1][2] = CursorOf(m_pages[k])
          /\ (k = Len(reqs) /\ m_err = "none") =>
                (continues(m_pages[k]) <=> m_pc = "items")

\* C2 (as stated): a further request is issued after a response if and only
\* if that response carries a cursor key (empty-valued cursors included); each
\* such request passes the cursor of the preceding response; the first
\* request passes no cursor.
C2_Original ==
    Pagination(LAMBDA page : HasKey(page, "cursor"))

\* C2 (amended): a further request is issued after a successful response if
\* and only if that response carries a cursor whose value is non-empty (not
\* missing, not null, not the empty string); each such request passes the
\* cursor of the immediately preceding response; the first passes no cursor.
C2_StopsOnEmptyCursor ==
    Pagination(LAMBDA page : Truthy(CursorOf(page)))

\* C2 witness: three requests were issued, the third passing the second
\* page's cursor, which differs from the first page's, and the third page
\* carries an empty-valued cursor, after which get_all_items returned.
C2_Witness ==
    /\ Len(ItemReqs) = 3
    /\ Len(m_pages) = 3
    /\ ItemReqs[3][2] = CursorOf(m_pages[2])
    /\ CursorOf(m_pages[1]) # CursorOf(m_pages[2])
    /\ CursorOf(m_pages[3]) = JStr("")
    /\ m_itemsRet # <<"none">>

\* C3: when get_all_items returns normally, its result is exactly the
\* concatenation, in request order, of the 'data' lists of every page
\* received.
C3_ItemsAreConcatenation ==
    m_itemsRet # <<"none">> => m_itemsRet[2] = ConcatData(m_pages)

\* C3 witness: get_all_items returned after three pages, one of them without
\* 'data', the others carrying the same two items in different orders.
C3_Witness ==
    /\ m_itemsRet # <<"none">>
    /\ Len(m_pages) = 3
    /\ ~HasKey(m_pages[2], "data")
    /\ DictGet(m_pages[1], "data", JNull) = JList(<<Item1, Item2>>)
    /\ DictGet(m_pages[3], "data", JNull) = JList(<<Item2, Item1>>)

\* C4: if the board-metadata request or any page request fails, backup_board
\* raises that error, no partial item list is returned, and the output file
\* is neither created nor modified.
C4_HttpFailureAborts ==
    m_failed # "none" =>
        /\ m_pc = "raised"
        /\ m_err = "RequestException"
        /\ m_itemsRet = <<"none">>
        /\ m_ret = <<"none">>
        /\ m_file = m_file0

\* C4 witness: a page request failed after two successful pages that had
\* already delivered items.
C4_Witness ==
    /\ m_failed = "page"
    /\ Len(m_pages) = 2
    /\ Len(m_items) >= 2

\* C5: whenever backup_board completes, the document it writes and returns
\* has 'board' equal to the fetched metadata, 'items' equal to the list
\* get_all_items returned, metadata.item_count equal to its length and
\* metadata.board_name equal to the board's 'name' ('Unknown Board' when the
\* metadata has no name), and parsing the written file reproduces them.
C5_BackupRoundTrips ==
    m_pc = "done" =>
        /\ m_file[1] = "data"
        /\ LET doc == JsonLoad(m_file[2])
               meta == DictGet(doc, "metadata", JNull)
           IN /\ doc = m_ret
              /\ DictGet(doc, "board", JNull) = m_boardInfo
              /\ DictGet(doc, "items", JNull) = JList(m_itemsRet[2])
              /\ DictGet(meta, "item_count", JNull) = JNum(Len(m_itemsRet[2]))
              /\ DictGet(meta, "board_name", JNull) =
                    (IF HasKey(m_boardInfo, "name")
                     THEN DictGet(m_boardInfo, "name", JNull)
                     ELSE JStr("Unknown Board"))

\* C5 witness: a backup of a board without a name and with three items
\* completed, overwriting a file that existed before.
C5_Witness ==
    /\ m_pc = "done"
    /\ ~HasKey(m_boardInfo, "name")
    /\ Len(m_itemsRet[2]) = 3
    /\ m_file0 = FileOld

\* C10: if MIRO_ACCESS_TOKEN or MIRO_BOARD_ID is unset or empty (after the
\* .env file is loaded), main stops before any request is issued and writes
\* no file; an unset OUTPUT_PATH alone does not stop it and the output path
\* is 'miro_board_backup.json'.
C10_MissingEnvAborts ==
    m_pc # "start" =>
        LET missing == \/ m_environ.token \in {EnvUnset, JStr("")}
                       \/ m_environ.board \in {EnvUnset, JStr("")}
        IN /\ missing <=> m_pc = "envError"
           /\ missing => /\ m_reqs = <<>>
                         /\ m_file = m_file0
                         /\ m_ret = <<"none">>
           /\ (~missing /\ m_environ.path = EnvUnset) =>
                 m_outputPath = JStr("miro_board_backup.json")

\* C10 witness: the token is set, the board id is empty, and main stopped.
C10_Witness ==
    /\ m_pc = "envError"
    /\ m_environ.token = JStr("tok")
    /\ m_environ.board = JStr("")

\* C10 second case reached: OUTPUT_PATH unset and the backup was written.
C10_DefaultPathUsed ==
    /\ m_pc = "done"
    /\ m_environ.path = EnvUnset

(***************************************************************************)
(* Transcript retrieval: get_single_discussion_text and the main loop      *)
(***************************************************************************)

\* A segment returned by get_asr: a dict with a 'text', one without, or one
\* whose 'text' is null.
Seg(text) == JObj(<< <<"text", JStr(text)>> >>)
SegNoText == JObj(<< <<"start", JNum(0)>> >>)
SegNullText == JObj(<< <<"text", JNull>> >>)

\* What one call can meet: hy_client.get_discussion raising, hy_client.get_asr
\* raising, or get_asr returning a list of segments.
SegmentLists ==
    { <<>>, <<Seg("a")>>, <<Seg("a"), Seg("b")>>, <<Seg("b"), Seg("a")>>,
      <<SegNoText>>, <<Seg("a"), SegNoText>>, <<SegNullText>> }

Outcomes ==
    {[lookup |-> e, asr |-> "none", segs |-> <<>>] : e \in {"IndexError", "HTTPError"}}
    \cup {[lookup |-> "ok", asr |-> e, segs |-> <<>>] : e \in {"IndexError", "HTTPError"}}
    \cup {[lookup |-> "ok", asr |-> "ok", segs |-> l] : l \in SegmentLists}

\* `[item['text'] for item in metadatas]`: the texts, or the KeyError raised.
RECURSIVE Texts(_)
Texts(segs) ==
    IF segs = <<>> THEN <<"ok", <<>>>>
    ELSE IF ~HasKey(Head(segs), "text") THEN <<"raise", "KeyError">>
    ELSE LET rest == Texts(Tail(segs)) IN
         IF rest[1] = "raise" THEN rest
         ELSE <<"ok", <<DictGet(Head(segs), "text", JNull)>> \o rest[2]>>

\* The try block of get_single_discussion_text.
TryBlock(discussion_id, o) ==
    IF o.lookup # "ok" THEN <<"raise", o.lookup>>
    ELSE IF o.asr # "ok" THEN <<"raise", o.asr>>
    ELSE LET texts == Texts(o.segs) IN
         IF texts[1] = "raise" THEN texts
         ELSE <<"ok", discussion_id, texts[2]>>

\* `except IndexError` / `except Exception`: every exception the service or
\* the extraction raises is an Exception.
\* (faulty variant: the `except Exception` clause left out)
CaughtMut(kind) == kind = "IndexError"
Caught(kind) == kind = "IndexError" \/ kind \in {"KeyError", "HTTPError"}

\* get_single_discussion_text: <<"ok", id, texts>>, <<"none">> for None, or
\* <<"raise", kind>> for an exception no except clause catches.
GetSingleDiscussionText(discussion_id, o) ==
    LET r == TryBlock(discussion_id, o) IN
    IF r[1] = "raise" /\ Caught(r[2]) THEN <<"none">> ELSE r

\* `if result['texts']:` after `if result is None: continue`
WritesFile(result) == result[1] = "ok" /\ result[3] # <<>>

\* A topic or group name: None, or a string given by its characters.
Name(chars) == <<"str", chars>>

\* `if discussion['topic']:` / `if discussion['group_name']:`
IsSet(name) == name[1] = "str" /\ name[2] # <<>>

\* `discussion['topic'].replace('/', <fullwidth solidus>)`
ReplaceSlash(chars) ==
    [i \in 1..Len(chars) |-> IF chars[i] = "/" THEN "FULLWIDTH SOLIDUS" ELSE chars[i]]

\* topic and group_name as they go into the file name: the topic with its
\* slashes replaced, the group name as it is, a default when not set.
TopicPart(topic) ==
    IF IsSet(topic) THEN ReplaceSlash(topic[2]) ELSE <<"topic unset">>

GroupPart(group_name) ==
    IF IsSet(group_name) THEN group_name[2] ELSE <<"group unset">>

\* seconds_to_time_format: <<"ok", fields>> for an int; None raises TypeError
\* at `seconds // 3600`, a float ValueError at the format code 02d.
SecondsToTimeFormat(seconds) ==
    CASE seconds[1] = "none"  -> <<"raise", "TypeError">>
      [] seconds[1] = "float" -> <<"raise", "ValueError">>
      [] seconds[1] = "int"   ->
            <<"ok", [hours |-> seconds[2] \div 3600,
                     minutes |-> (seconds[2] % 3600) \div 60,
                     remaining_seconds |-> seconds[2] % 60]>>

\* The fields of a discussion record besides its id that the iteration reads.
DiscussionFields ==
    { [topic |-> Name(<<"T", "/", "U">>), group_name |-> Name(<<"G">>),
       duration_sec |-> <<"int", 3725>>],
      [topic |-> JNull, group_name |-> JNull, duration_sec |-> <<"int", 0>>],
      [topic |-> Name(<<"T">>), group_name |-> Name(<<"A", "/", "B">>),
       duration_sec |-> <<"int", 75>>],
      [topic |-> Name(<<"T">>), group_name |-> Name(<<"G">>),
       duration_sec |-> <<"none">>],
      [topic |-> Name(<<"T">>), group_name |-> Name(<<"G">>),
       duration_sec |-> <<"float", 25, 2>>] }

\* open(output_dir / filename, 'a') raises FileNotFoundError when the name
\* holds a path separator: the directory it then names does not exist.
OpenFails(topic, group) == "/" \in (Range(topic) \cup Range(group))

\* open(..., 'a'): the file is created empty when absent and kept otherwise.
Opened(file) == IF file = FileAbsent THEN <<"data", <<>>>> ELSE file

\* '\n'.join(texts) raises TypeError unless every text is a str.
AllStr(texts) == \A i \in 1..Len(texts) : texts[i][1] = "str"

\* `file.write('\n'.join(result['texts']) + '\n')` on the opened file: the
\* texts of the file after the write.
AppendTexts(file, texts) ==
    IF file = FileAbsent THEN <<"data", texts>> ELSE <<"data", file[2] \o texts>>

\* Lines 266-270: the file name is built, the file opened and the texts
\* written.  err is the exception raised ("none": the write was done), file
\* the file afterwards.
WriteTranscript(file, discussion, texts) ==
    LET duration == SecondsToTimeFormat(discussion.duration_sec)
        topic == TopicPart(discussion.topic)
        group == GroupPart(discussion.group_name)
    IN IF duration[1] = "raise" THEN [err |-> duration[2], file |-> file]
       ELSE IF OpenFails(topic, group)
            THEN [err |-> "FileNotFoundError", file |-> file]
       ELSE IF ~AllStr(texts) THEN [err |-> "TypeError", file |-> Opened(file)]
       ELSE [err |-> "none", file |-> AppendTexts(file, texts)]

\* The identifiers 1..NumIds in ascending and in descending order.
Ascending == [i \in 1..NumIds |-> i]
Descending == [i \in 1..NumIds |-> NumIds + 1 - i]

\* The lists all_discussions is drawn from: the leading parts of both orders.
EnumeratedLists ==
    {SubSeq(Ascending, 1, k) : k \in 0..NumIds}
    \cup {SubSeq(Descending, 1, k) : k \in 0..NumIds}

\* One iteration of `for discussion in tqdm(all_discussions, ...)`.  An
\* exception of the write is not caught: it ends the script.
MainIteration ==
    /\ t_pc = "loop"
    /\ t_i <= Len(t_list)
    /\ \E fields \in DiscussionFields, o \in Outcomes :
          LET id == t_list[t_i]
              result == GetSingleDiscussionText(id, o)
          IN /\ t_discussion' = fields
             /\ t_processed' = Append(t_processed, id)
             /\ t_outcomes' = Append(t_outcomes, o)
             /\ t_results' = Append(t_results, result)
             /\ IF result[1] = "raise"
                THEN \* the exception leaves the loop and ends the script
                     /\ t_pc' = "crashed"
                     /\ t_err' = result[2]
                     /\ UNCHANGED <<t_i, t_files, t_written>>
                ELSE IF result[1] # "none" /\ WritesFile(result)
                THEN LET w == WriteTranscript(t_files[id], fields, result[3]) IN
                     /\ t_files' = [t_files EXCEPT ![id] = w.file]
                     /\ t_err' = w.err
                     /\ IF w.err = "none"
                        THEN /\ t_pc' = "loop"
                             /\ t_i' = t_i + 1
                             /\ t_written' = t_written \cup {id}
                        ELSE /\ t_pc' = "crashed"
                             /\ UNCHANGED <<t_i, t_written>>
                ELSE /\ t_pc' = "loop"
                     /\ t_i' = t_i + 1
                     /\ UNCHANGED <<t_files, t_written, t_err>>
    /\ UNCHANGED <<t_list, t_files0>>
    /\ UNCHANGED notText

\* The for loop is exhausted.
MainLoopEnd ==
    /\ t_pc = "loop"
    /\ t_i > Len(t_list)
    /\ t_pc' = "done"
    /\ UNCHANGED <<t_list, t_i, t_discussion, t_files0, t_files, t_processed,
                   t_outcomes, t_results, t_written, t_err>>
    /\ UNCHANGED notText

TextNext ==
    \/ MainIteration
    \/ MainLoopEnd

(***************************************************************************)
(* get_all_discussion_ids: enumeration and sort                            *)
(***************************************************************************)
MaxInstantOffset == 3   \* recorded-at instants a listing draws from

\* Instants are counted in half seconds; recorded-at instants lie around
\* 14:59:59 UTC of day 0, which is 23:59:59 in Asia/Tokyo.
UnitsPerSecond == 2
SecondsPerDay == 86400
BaseInstant == 107998
JstOffsetSeconds == 32400

Instants == {BaseInstant + k : k \in 0..MaxInstantOffset}

\* `utc_time.astimezone(jst)` then `strftime('%Y-%m-%d %H:%M:%S %Z')`: the
\* fields of the string; the fraction of a second is not printed.
StrfTimeJst(instant) ==
    LET local == (instant \div UnitsPerSecond) + JstOffsetSeconds
        inDay == local % SecondsPerDay
    IN [date |-> local \div SecondsPerDay,
        hour |-> inDay \div 3600,
        minute |-> (inDay % 3600) \div 60,
        second |-> inDay % 60,
        tz |-> "JST"]

\* `datetime.strptime(x['recordedAt'], '%Y-%m-%d %H:%M:%S %Z')`: a naive
\* datetime, here as the seconds it counts; naive datetimes compare by that.
StrpTime(str) ==
    str.date * SecondsPerDay + str.hour * 3600 + str.minute * 60 + str.second

\* The key of the sort.
SortKey(d) == StrpTime(d.recordedAt)

\* `discussions.sort(key=..., reverse=True)`: a stable sort, so records with
\* equal keys keep their order; each record goes after those whose key is at
\* least its own.
\* (faulty variant: reverse=True left out, an ascending sort)
RECURSIVE InsertDescMut(_, _)
InsertDescMut(sorted, d) ==
    IF sorted = <<>> THEN <<d>>
    ELSE IF SortKey(Head(sorted)) <= SortKey(d)
         THEN <<Head(sorted)>> \o InsertDescMut(Tail(sorted), d)
         ELSE <<d>> \o sorted
RECURSIVE InsertDesc(_, _)
InsertDesc(sorted, d) ==
    IF sorted = <<>> THEN <<d>>
    ELSE IF SortKey(Head(sorted)) >= SortKey(d)
         THEN <<Head(sorted)>> \o InsertDesc(Tail(sorted), d)
         ELSE <<d>> \o sorted

RECURSIVE SortDesc(_)
SortDesc(seq) ==
    IF seq = <<>> THEN <<>>
    ELSE InsertDesc(SortDesc(SubSeq(seq, 1, Len(seq) - 1)), seq[Len(seq)])

\* discussion_info; `instant` is the recorded-at instant the service gave,
\* kept beside the record to state claims about it.
DiscussionInfo(id, instant) ==
    [id |-> id, recordedAt |-> StrfTimeJst(instant), instant |-> instant]

\* `if len(found_ids) == len(discussions)`
AllRetrieved(found, discussions) == Cardinality(found) = Len(discussions)


\* `while True:` and the call hy_client.get_discussions(course_id), which
\* takes no time or MaxListDur logical seconds.
EnumPassBegin ==
    /\ e_pc = "pass"
    /\ e_pc' = "iter"
    /\ e_pos' = 0
    /\ e_passes' = e_passes + 1
    /\ e_newInPass' = FALSE
    /\ \E d \in {0, MaxListDur} : e_now' = e_now + d
    /\ UNCHANGED <<e_timeout, e_found, e_discussions, e_listed, e_tzKnown,
                   e_ret, e_err>>
    /\ UNCHANGED notEnum

\* The listing yields its next discussion and the loop body runs on it.
EnumYield ==
    /\ e_pc = "iter"
    /\ e_pos < MaxListLen
    /\ e_pos' = e_pos + 1
    /\ \E id \in DiscussionIds, instant \in Instants :
          IF id \notin e_found
          THEN /\ e_found' = e_found \cup {id}
               /\ e_discussions' = Append(e_discussions, DiscussionInfo(id, instant))
               /\ e_listed' = Append(e_listed, DiscussionInfo(id, instant))
               /\ e_newInPass' = TRUE
          ELSE UNCHANGED <<e_found, e_discussions, e_listed, e_newInPass>>
    /\ UNCHANGED <<e_pc, e_timeout, e_now, e_passes, e_tzKnown, e_ret, e_err>>
    /\ UNCHANGED notEnum

\* The listing is exhausted; the timeout check and the "all retrieved" check
\* follow, and on a break the sort of discussions in place and the return of
\* that list.  strptime's %Z accepts the local timezone's names, UTC and GMT
\* only: where JST is not one of them, the key raises ValueError on the first
\* record and the list is left as it was.
EnumListEnd ==
    /\ e_pc = "iter"
    /\ IF TimedOut(e_now, e_timeout) \/ AllRetrieved(e_found, e_discussions)
       THEN IF e_discussions # <<>> /\ ~e_tzKnown
            THEN /\ e_pc' = "raised"
                 /\ e_err' = "ValueError"
                 /\ UNCHANGED <<e_discussions, e_ret>>
            ELSE /\ e_pc' = "done"
                 /\ e_discussions' = SortDesc(e_discussions)
                 /\ e_ret' = <<"ret", e_discussions'>>
                 /\ e_err' = e_err
       ELSE /\ e_pc' = "pass"
            /\ UNCHANGED <<e_discussions, e_ret, e_err>>
    /\ UNCHANGED <<e_timeout, e_now, e_found, e_listed, e_pos, e_passes,
                   e_newInPass, e_tzKnown>>
    /\ UNCHANGED notEnum

EnumNext ==
    \/ EnumPassBegin
    \/ EnumYield
    \/ EnumListEnd

(***************************************************************************)
(* Claims about transcript retrieval and the main loop                     *)
(***************************************************************************)

\* Whether a call that met outcome o has everything it needs: the discussion,
\* its ASR segments, and a 'text' in every segment.
Retrievable(o) ==
    /\ o.lookup = "ok"
    /\ o.asr = "ok"
    /\ \A i \in 1..Len(o.segs) : HasKey(o.segs[i], "text")

\* The texts of the segments, in the order get_asr returned them.
TextsInOrder(o) ==
    [i \in 1..Len(o.segs) |-> DictGet(o.segs[i], "text", JNull)]

\* C6: get_single_discussion_text never raises: if the discussion lookup, the
\* ASR fetch or the extraction of a segment's 'text' fails, it returns None;
\* otherwise it returns the identifier with the segment texts in the order
\* the ASR call returned them.
C6_NeverRaises ==
    \A k \in 1..Len(t_results) :
          /\ t_results[k][1] # "raise"
          /\ IF Retrievable(t_outcomes[k])
             THEN t_results[k] = <<"ok", t_processed[k], TextsInOrder(t_outcomes[k])>>
             ELSE t_results[k] = <<"none">>

\* C6 witness: one call failed on a segment without 'text' after a segment
\* with one, and another call returned two texts in the order b, a.
C6_Witness ==
    \E j, k \in 1..Len(t_results) :
        /\ t_outcomes[j].segs = <<Seg("a"), SegNoText>>
        /\ t_results[j] = <<"none">>
        /\ t_results[k] = <<"ok", t_processed[k], <<JStr("b"), JStr("a")>>>>

\* What C7 says of the discussions processed so far: they are the leading
\* part of the list in list order, and a transcript file was written for a
\* discussion if and only if its retrieval succeeded with a non-empty segment
\* list.
C7_Processing ==
    /\ Len(t_processed) <= Len(t_list)
    /\ t_processed = SubSeq(t_list, 1, Len(t_processed))
    /\ t_pc = "done" => t_processed = t_list
    /\ t_pc = "loop" => t_i = Len(t_processed) + 1
    /\ \A k \in 1..Len(t_processed) :
          LET id == t_processed[k]
              o == t_outcomes[k]
          IN IF Retrievable(o) /\ o.segs # <<>>
             THEN /\ id \in t_written
                  /\ t_files[id] # FileAbsent
                  /\ t_files[id][2] =
                        (IF t_files0[id] = FileAbsent THEN <<>> ELSE t_files0[id][2])
                        \o TextsInOrder(o)
             ELSE /\ id \notin t_written
                  /\ t_files[id] = t_files0[id]
    /\ \A id \in DOMAIN t_files :
          id \notin Range(t_processed) => t_files[id] = t_files0[id]

\* C7: in the main loop a discussion whose retrieval fails is skipped and the
\* run continues: every discussion of the list is processed exactly once in
\* list order whatever happened to earlier ones, and a transcript file is
\* written for a discussion if and only if its retrieval succeeded with a
\* non-empty segment list.
C7_SkipAndContinue ==
    /\ t_pc \in {"idle", "loop", "done"}
    /\ C7_Processing

\* C7, as far as the code keeps it: while no write of a transcript has
\* raised, the run continues and the files are as C7 says.
C7_HoldsUntilWriteRaises ==
    /\ t_err = "none" => t_pc \in {"idle", "loop", "done"} /\ C7_Processing
    /\ t_pc = "crashed" <=> t_err # "none"

\* A failed retrieval never ends the run: the run is only ended by an
\* exception of the write of a retrieved transcript.
C7_FailedRetrievalSkipped ==
    t_pc = "crashed" =>
        /\ t_err \in {"FileNotFoundError", "TypeError", "ValueError"}
        /\ Retrievable(t_outcomes[Len(t_outcomes)])
        /\ t_outcomes[Len(t_outcomes)].segs # <<>>
        /\ Len(t_processed) = t_i

\* The run was ended by the write of the first of two discussions: the
\* second one was never processed and no file was written.
C7_RunEnded ==
    /\ t_pc = "crashed"
    /\ Len(t_list) = 2
    /\ t_processed = <<t_list[1]>>
    /\ t_written = {}

\* C7 witness: the run ended after three discussions: the first failed in
\* the lookup, the second had an empty segment list, the third was written.
C7_Witness ==
    /\ t_pc = "done"
    /\ Len(t_list) = 3
    /\ t_outcomes[1].lookup = "IndexError"
    /\ t_outcomes[2].asr = "ok" /\ t_outcomes[2].segs = <<>>
    /\ t_written = {t_list[3]}

(***************************************************************************)
(* Claims about get_all_discussion_ids                                     *)
(***************************************************************************)

\* The whole second of a recorded-at instant.
WholeSecond(instant) == instant \div UnitsPerSecond

\* The position of the record of identifier id in a list of records.
PosOf(list, id) == CHOOSE i \in 1..Len(list) : list[i].id = id

\* C8 (as stated): the returned list is strictly descending by recorded-at
\* instant: each record's instant is strictly later than the next one's.
C8_Original ==
    e_pc = "done" =>
        \A i \in 1..(Len(e_ret[2]) - 1) :
            e_ret[2][i].instant > e_ret[2][i + 1].instant

\* C8 (amended): the returned list holds the collected records, each once,
\* in non-increasing order of the recorded-at timestamp truncated to whole
\* seconds: each record's second is later than or equal to the next one's,
\* and records of the same second keep the order in which they were listed.
C8_NonIncreasingBySecond ==
    e_pc = "done" =>
        LET ret == e_ret[2] IN
        /\ ret = e_discussions
        /\ Len(ret) = Len(e_listed)
        /\ Range(ret) = Range(e_listed)
        /\ \A i \in 1..(Len(ret) - 1) :
              /\ WholeSecond(ret[i].instant) >= WholeSecond(ret[i + 1].instant)
              /\ WholeSecond(ret[i].instant) = WholeSecond(ret[i + 1].instant) =>
                    PosOf(e_listed, ret[i].id) < PosOf(e_listed, ret[i + 1].id)

\* C8 witness: three records were returned; the first is of the next day in
\* Asia/Tokyo, the other two are of the same second with the earlier instant
\* first.
C8_Witness ==
    /\ e_pc = "done"
    /\ Len(e_ret[2]) = 3
    /\ e_ret[2][1].recordedAt.date > e_ret[2][2].recordedAt.date
    /\ e_ret[2][2].recordedAt = e_ret[2][3].recordedAt
    /\ e_ret[2][2].instant < e_ret[2][3].instant

\* C11 (as stated): whenever a listing pass adds at least one previously
\* unseen identifier and the timeout has not elapsed, another listing pass
\* follows; so the call returns only after a pass that added nothing or
\* after the timeout has elapsed.
C11_Original ==
    e_pc = "done" /\ e_newInPass => TimedOut(e_now, e_timeout)

\* What the code does instead: found_ids and discussions grow together, so
\* `len(found_ids) == len(discussions)` holds at every check and the loop is
\* left after its first listing pass.
C11_SinglePass ==
    /\ AllRetrieved(e_found, e_discussions)
    /\ e_passes <= 1
    /\ e_pc \in {"done", "raised"} => e_passes = 1

(***************************************************************************)
(* Specifications: one per pipeline; the other pipelines are idle.         *)
(***************************************************************************)

\* State at the entry of get_discussion_ids / get_recording_discussion_ids:
\* discussion_ids = [], start_time = time.time().
PollInit ==
    /\ p_fn \in {"all", "recording"}
    /\ p_max \in -1..MaxMax
    /\ p_timeout \in -1..MaxTimeout
    /\ p_pc = "loop"
    /\ p_ids = <<>>
    /\ p_pos = 0
    /\ p_now = 0
    /\ p_pass = "none"
    /\ p_passAt = 0
    /\ p_sleepAt = -1
    /\ p_ret = <<>>
    /\ m_pc = "idle" /\ m_environ = JNull /\ m_outputPath = JNull
    /\ m_file0 = FileAbsent /\ m_file = FileAbsent /\ m_reqs = <<>>
    /\ m_pages = <<>> /\ m_items = <<>> /\ m_cursor = JNull
    /\ m_boardInfo = JNull /\ m_itemsRet = <<"none">> /\ m_ret = <<"none">>
    /\ m_failed = "none" /\ m_err = "none"
    /\ t_pc = "idle" /\ t_list = <<>> /\ t_i = 1 /\ t_files0 = <<>>
    /\ t_files = <<>> /\ t_processed = <<>> /\ t_outcomes = <<>>
    /\ t_results = <<>> /\ t_written = {} /\ t_discussion = JNull
    /\ t_err = "none"
    /\ e_pc = "idle" /\ e_timeout = 0 /\ e_now = 0 /\ e_found = {}
    /\ e_discussions = <<>> /\ e_listed = <<>> /\ e_pos = 0 /\ e_passes = 0
    /\ e_newInPass = FALSE /\ e_tzKnown = TRUE /\ e_ret = <<"none">>
    /\ e_err = "none"

SpecPoll == PollInit /\ [][PollNext]_vars

\* State at the entry of main of the board backup.
MiroInit ==
    /\ m_pc = "start"
    /\ m_environ \in Environs
    /\ m_outputPath = JNull
    /\ m_file0 \in {FileAbsent, FileOld}
    /\ m_file = m_file0
    /\ m_reqs = <<>>
    /\ m_pages = <<>>
    /\ m_items = <<>>
    /\ m_cursor = JNull
    /\ m_boardInfo = JNull
    /\ m_itemsRet = <<"none">>
    /\ m_ret = <<"none">>
    /\ m_failed = "none"
    /\ m_err = "none"
    /\ p_fn = "all" /\ p_max = 0 /\ p_timeout = 0 /\ p_pc = "idle"
    /\ p_ids = <<>> /\ p_pos = 0 /\ p_now = 0 /\ p_pass = "none"
    /\ p_passAt = 0 /\ p_sleepAt = -1 /\ p_ret = <<>>
    /\ t_pc = "idle" /\ t_list = <<>> /\ t_i = 1 /\ t_files0 = <<>>
    /\ t_files = <<>> /\ t_processed = <<>> /\ t_outcomes = <<>>
    /\ t_results = <<>> /\ t_written = {} /\ t_discussion = JNull
    /\ t_err = "none"
    /\ e_pc = "idle" /\ e_timeout = 0 /\ e_now = 0 /\ e_found = {}
    /\ e_discussions = <<>> /\ e_listed = <<>> /\ e_pos = 0 /\ e_passes = 0
    /\ e_newInPass = FALSE /\ e_tzKnown = TRUE /\ e_ret = <<"none">>
    /\ e_err = "none"

SpecMiro == MiroInit /\ [][MiroNext]_vars

\* State at the entry of the main loop of the fetcher: all_discussions as
\* get_all_discussion_ids returned it (identifiers are unique; the other
\* fields of a record are drawn when its iteration reads them); the output
\* directory is fresh or holds a file per discussion.
TextInit ==
    /\ t_pc = "loop"
    /\ t_list \in EnumeratedLists
    /\ t_i = 1
    /\ t_files0 \in {[d \in DiscussionIds |-> FileAbsent],
                     [d \in DiscussionIds |-> <<"data", <<JStr("old")>>>>]}
    /\ t_files = t_files0
    /\ t_processed = <<>>
    /\ t_outcomes = <<>>
    /\ t_results = <<>>
    /\ t_written = {}
    /\ t_discussion = JNull
    /\ t_err = "none"
    /\ p_fn = "all" /\ p_max = 0 /\ p_timeout = 0 /\ p_pc = "idle"
    /\ p_ids = <<>> /\ p_pos = 0 /\ p_now = 0 /\ p_pass = "none"
    /\ p_passAt = 0 /\ p_sleepAt = -1 /\ p_ret = <<>>
    /\ m_pc = "idle" /\ m_environ = JNull /\ m_outputPath = JNull
    /\ m_file0 = FileAbsent /\ m_file = FileAbsent /\ m_reqs = <<>>
    /\ m_pages = <<>> /\ m_items = <<>> /\ m_cursor = JNull
    /\ m_boardInfo = JNull /\ m_itemsRet = <<"none">> /\ m_ret = <<"none">>
    /\ m_failed = "none" /\ m_err = "none"
    /\ e_pc = "idle" /\ e_timeout = 0 /\ e_now = 0 /\ e_found = {}
    /\ e_discussions = <<>> /\ e_listed = <<>> /\ e_pos = 0 /\ e_passes = 0
    /\ e_newInPass = FALSE /\ e_tzKnown = TRUE /\ e_ret = <<"none">>
    /\ e_err = "none"

SpecText == TextInit /\ [][TextNext]_vars

\* State at the entry of get_all_discussion_ids.
EnumInit ==
    /\ e_pc = "pass"
    /\ e_timeout \in {0, MaxTimeout}
    /\ e_now = 0
    /\ e_found = {}
    /\ e_discussions = <<>>
    /\ e_listed = <<>>
    /\ e_pos = 0
    /\ e_passes = 0
    /\ e_newInPass = FALSE
    /\ e_tzKnown \in BOOLEAN
    /\ e_ret = <<"none">>
    /\ e_err = "none"
    /\ p_fn = "all" /\ p_max = 0 /\ p_timeout = 0 /\ p_pc = "idle"
    /\ p_ids = <<>> /\ p_pos = 0 /\ p_now = 0 /\ p_pass = "none"
    /\ p_passAt = 0 /\ p_sleepAt = -1 /\ p_ret = <<>>
    /\ m_pc = "idle" /\ m_environ = JNull /\ m_outputPath = JNull
    /\ m_file0 = FileAbsent /\ m_file = FileAbsent /\ m_reqs = <<>>
    /\ m_pages = <<>> /\ m_items = <<>> /\ m_cursor = JNull
    /\ m_boardInfo = JNull /\ m_itemsRet = <<"none">> /\ m_ret = <<"none">>
    /\ m_failed = "none" /\ m_err = "none"
    /\ t_pc = "idle" /\ t_list = <<>> /\ t_i = 1 /\ t_files0 = <<>>
    /\ t_files = <<>> /\ t_processed = <<>> /\ t_outcomes = <<>>
    /\ t_results = <<>> /\ t_written = {} /\ t_discussion = JNull
    /\ t_err = "none"

SpecEnum == EnumInit /\ [][EnumNext]_vars

=============================================================================
